---------------------------- MODULE Spec2Model ----------------------------
(***************************************************************************)
(* tscriptify: scan Go files for exported struct declarations, render a    *)
(* driver program from a template into a temporary file and `go run` it.   *)
(*                                                                         *)
(* Strings are sequences of bytes (Go strings), so that indexing a string  *)
(* (t.Name[0]) yields a byte as it does in the program.                    *)
(***************************************************************************)
EXTENDS Integers, Sequences, FiniteSets, TLC

(***************************************************************************)
(* Bounds of the model.                                                    *)
(***************************************************************************)
\* number of positional arguments of an invocation
MaxArgs == 2
\* number of syntax nodes of a traversal explored by SpecVisit
MaxNodes == 4

(***************************************************************************)
(* Byte strings and the string functions the program calls.                *)
(***************************************************************************)
\* filepath.Separator on the platforms where it is '/'
Separator == 47

\* strings.HasSuffix
HasSuffix(s, suffix) ==
    /\ Len(s) >= Len(suffix)
    /\ SubSeq(s, Len(s) - Len(suffix) + 1, Len(s)) = suffix

\* strings.HasPrefix
HasPrefix(s, prefix) ==
    /\ Len(s) >= Len(prefix)
    /\ SubSeq(s, 1, Len(prefix)) = prefix

\* strings.Contains for a one-byte substring
ContainsByte(s, b) == \E i \in 1..Len(s) : s[i] = b

\* width in bytes of the UTF-8 sequence introduced by lead byte b
\* (1 for ASCII and for bytes that introduce nothing, as utf8.DecodeRune)
RuneLen(b) ==
    IF b >= 240 /\ b <= 244 THEN 4
    ELSE IF b >= 224 /\ b <= 239 THEN 3
    ELSE IF b >= 194 /\ b <= 223 THEN 2
    ELSE 1

\* utf8.DecodeRuneInString: the first code point of a non-empty string
\* (65533, utf8.RuneError, for a truncated sequence)
DecodeRune(s) ==
    LET b == s[1]
        n == RuneLen(b)
    IN  IF n = 1 THEN (IF b < 128 THEN b ELSE 65533)
        ELSE IF Len(s) < n THEN 65533
        ELSE IF n = 2 THEN (b % 32) * 64 + (s[2] % 64)
        ELSE IF n = 3 THEN (b % 16) * 4096 + (s[2] % 64) * 64 + (s[3] % 64)
        ELSE (b % 8) * 262144 + (s[2] % 64) * 4096 + (s[3] % 64) * 64 + (s[4] % 64)

\* the start of the last UTF-8 sequence of a non-empty string
LastRuneStart(s) ==
    LET IsCont(i) == s[i] >= 128 /\ s[i] <= 191
        n == Len(s)
    IN  IF ~IsCont(n) THEN n
        ELSE IF n >= 2 /\ RuneLen(s[n-1]) = 2 THEN n - 1
        ELSE IF n >= 3 /\ RuneLen(s[n-2]) = 3 THEN n - 2
        ELSE IF n >= 4 /\ RuneLen(s[n-3]) = 4 THEN n - 3
        ELSE n

\* unicode.IsSpace
IsSpace(r) ==
    \/ r \in {9, 10, 11, 12, 13, 32, 133, 160, 5760, 8232, 8233, 8239, 8287, 12288}
    \/ (r >= 8192 /\ r <= 8202)

RECURSIVE TrimLeftSpace(_)
TrimLeftSpace(s) ==
    IF s = <<>> THEN s
    ELSE IF IsSpace(DecodeRune(s))
         THEN TrimLeftSpace(SubSeq(s, RuneLen(s[1]) + 1, Len(s)))
         ELSE s

RECURSIVE TrimRightSpace(_)
TrimRightSpace(s) ==
    IF s = <<>> THEN s
    ELSE LET k == LastRuneStart(s)
         IN  IF IsSpace(DecodeRune(SubSeq(s, k, Len(s))))
             THEN TrimRightSpace(SubSeq(s, 1, k - 1))
             ELSE s

\* strings.TrimSpace
TrimSpace(s) == TrimRightSpace(TrimLeftSpace(s))

\* unicode.IsUpper on the code points below 256, the only ones a byte
\* converted to a rune can be
IsUpper(r) ==
    \/ (r >= 65 /\ r <= 90)
    \/ (r >= 192 /\ r <= 214)
    \/ (r >= 216 /\ r <= 222)

\* strconv.Itoa, as the %d verb of fmt.Sprintf formats an int >= 0
RECURSIVE Itoa(_)
Itoa(n) ==
    IF n < 10 THEN <<48 + n>>
    ELSE Itoa(n \div 10) \o <<48 + (n % 10)>>

\* strconv.Quote, as the %q verb formats a string of printable characters:
\* double quotes around it, a backslash before each '"' and '\'
RECURSIVE QuoteBody(_)
QuoteBody(s) ==
    IF s = <<>> THEN <<>>
    ELSE (IF s[1] \in {34, 92} THEN <<92, s[1]>> ELSE <<s[1]>>) \o QuoteBody(Tail(s))

Quote(s) == <<34>> \o QuoteBody(s) \o <<34>>

(***************************************************************************)
(* path/filepath                                                           *)
(***************************************************************************)
\* the components of a path between separators
RECURSIVE SplitPath(_, _)
SplitPath(s, cur) ==
    IF s = <<>> THEN <<cur>>
    ELSE IF s[1] = Separator THEN <<cur>> \o SplitPath(Tail(s), <<>>)
    ELSE SplitPath(Tail(s), Append(cur, s[1]))

RECURSIVE JoinPath(_)
JoinPath(comps) ==
    IF comps = <<>> THEN <<>>
    ELSE IF Len(comps) = 1 THEN comps[1]
    ELSE comps[1] \o <<Separator>> \o JoinPath(Tail(comps))

\* the component stack of filepath.Clean: "" and "." are dropped, ".."
\* removes the component before it (or stays, in a relative path)
RECURSIVE CleanComps(_, _, _)
CleanComps(comps, out, rooted) ==
    IF comps = <<>> THEN out
    ELSE LET c == comps[1]
             rest == Tail(comps)
         IN  IF c = <<>> \/ c = <<46>> THEN CleanComps(rest, out, rooted)
             ELSE IF c = <<46, 46>>
                  THEN IF out # <<>> /\ out[Len(out)] # <<46, 46>>
                       THEN CleanComps(rest, SubSeq(out, 1, Len(out) - 1), rooted)
                       ELSE IF rooted THEN CleanComps(rest, out, rooted)
                       ELSE CleanComps(rest, Append(out, c), rooted)
             ELSE CleanComps(rest, Append(out, c), rooted)

\* filepath.Clean
Clean(path) ==
    IF path = <<>> THEN <<46>>
    ELSE LET rooted == path[1] = Separator
             body == JoinPath(CleanComps(SplitPath(path, <<>>), <<>>, rooted))
         IN  IF rooted THEN <<Separator>> \o body
             ELSE IF body = <<>> THEN <<46>> ELSE body

\* filepath.Join of two elements: empty elements are ignored, the rest is
\* joined by the separator and cleaned
Join(a, b) ==
    IF a = <<>> /\ b = <<>> THEN <<>>
    ELSE IF a = <<>> THEN Clean(b)
    ELSE IF b = <<>> THEN Clean(a)
    ELSE Clean(a \o <<Separator>> \o b)

\* index of the last separator of a path, 0 if none
RECURSIVE LastSep(_, _)
LastSep(path, i) ==
    IF i = 0 THEN 0
    ELSE IF path[i] = Separator THEN i
    ELSE LastSep(path, i - 1)

\* filepath.Dir: all but the last element, cleaned
Dir(path) == Clean(SubSeq(path, 1, LastSep(path, Len(path))))

(***************************************************************************)
(* go/ast: the syntax nodes ast.Walk hands to the visitor, in the order it *)
(* visits them; ast.Walk calls Visit(nil) after the children of a node.    *)
(***************************************************************************)
Ident(name) == [kind |-> "Ident", name |-> name]
StructType == [kind |-> "StructType", name |-> <<>>]
\* any node that is neither an *ast.Ident nor an *ast.StructType
OtherNode == [kind |-> "Other", name |-> <<>>]
NilNode == [kind |-> "nil", name |-> <<>>]

\* AVisitor{}
NewVisitor == [structNameCandidate |-> <<>>, structs |-> <<>>]

\* AVisitor.Visit: the visitor after visiting node
Visit(v, node) ==
    IF node.kind = "nil" THEN v
    ELSE IF node.kind = "Ident"
         THEN IF IsUpper(node.name[1])
              THEN [v EXCEPT !.structNameCandidate = node.name]
              ELSE [v EXCEPT !.structNameCandidate = <<>>]
    ELSE IF node.kind = "StructType"
         THEN IF Len(v.structNameCandidate) > 0
              THEN IF IsUpper(v.structNameCandidate[1])
                   THEN [structNameCandidate |-> <<>>,
                         structs |-> Append(v.structs, v.structNameCandidate)]
                   ELSE [v EXCEPT !.structNameCandidate = <<>>]
              ELSE v
    ELSE [v EXCEPT !.structNameCandidate = <<>>]

\* ast.Walk(v, f): the visitor after the whole traversal
RECURSIVE Walk(_, _)
Walk(v, ns) ==
    IF ns = <<>> THEN v ELSE Walk(Visit(v, ns[1]), Tail(ns))

(***************************************************************************)
(* The command lines and files of the model.                               *)
(***************************************************************************)
GoSuffix == <<46, 103, 111>>                       \* ".go"

Name_Foo == <<70, 111, 111>>                       \* "Foo"
Name_Bar == <<66, 97, 114>>                        \* "Bar"
Name_bar == <<98, 97, 114>>                        \* "bar"
Name_m == <<109>>                                  \* "m"
Name_F == <<70>>                                   \* "F"
Name_ecole == <<195, 169, 99, 111, 108, 101>>      \* "école", U+00E9 first
Name_WideA == <<239, 188, 161, 98>>                \* "Ａb", U+FF21 first

Arg_foo == <<102, 111, 111>>                       \* "foo"
Arg_dotx == <<32, 46, 120>>                        \* " .x"
Arg_aB == <<97, 47, 66>>                           \* "a/B"
File_ax == <<97, 47, 120, 46, 103, 111>>           \* "a/x.go"
File_ay == <<97, 47, 46, 47, 121, 46, 103, 111>>   \* "a/./y.go"
File_bz == <<98, 47, 122, 46, 103, 111>>           \* "b/z.go"
File_be == <<98, 47, 101, 46, 103, 111>>           \* "b/e.go"
File_bad == <<98, 97, 100, 46, 103, 111>>          \* "bad.go"

\* the positional arguments an invocation draws from
ArgUniverse ==
    {Arg_foo, Arg_dotx, Arg_aB, File_ax, File_ay, File_bz, File_be, File_bad}

\* the traversal of `package m; type <name> struct{}`, without the
\* enclosing file node
TypeDeclNodes(name) ==
    << OtherNode,                \* GenDecl
       OtherNode,                \* TypeSpec
       Ident(name), NilNode,
       StructType,
       OtherNode, NilNode,       \* FieldList
       NilNode, NilNode, NilNode >>

FileNodes(decls) ==
    <<OtherNode, Ident(Name_m), NilNode>> \o decls \o <<NilNode>>

\* the traversal of `func F() {}`
FuncDeclNodes ==
    << OtherNode,                \* FuncDecl
       Ident(Name_F), NilNode,
       OtherNode,                \* FuncType
       OtherNode, NilNode,       \* FieldList
       NilNode,
       OtherNode, NilNode,       \* BlockStmt
       NilNode >>

\* parser.ParseFile on the files of the model: a syntax error, or the
\* traversal of the file's tree
ParseFile(filename) ==
    IF filename = File_ax
    THEN [err |-> FALSE,
          nodes |-> FileNodes(TypeDeclNodes(Name_Foo) \o TypeDeclNodes(Name_bar))]
    ELSE IF filename = File_ay
    THEN [err |-> FALSE, nodes |-> FileNodes(TypeDeclNodes(Name_Bar))]
    ELSE IF filename = File_bz
    THEN [err |-> FALSE,
          nodes |-> FileNodes(TypeDeclNodes(Name_ecole) \o TypeDeclNodes(Name_Foo))]
    ELSE IF filename = File_be
    THEN [err |-> FALSE, nodes |-> FileNodes(FuncDeclNodes)]
    ELSE [err |-> TRUE, nodes |-> <<>>]

\* GetGolangFileStructs, for a file that parses
GetGolangFileStructs(filename) ==
    Walk(NewVisitor, ParseFile(filename).nodes).structs

\* os.ReadFile of an injection file that can be read: `"fmt"`
InjectedText == <<34, 102, 109, 116, 34>>

Pkg_p == <<112>>                                   \* "p"
Target_t == <<116, 46, 116, 115>>                  \* "t.ts"
Inj_i == <<105>>                                   \* "i"

\* the nodes a traversal of SpecVisit draws from
NodeUniverse ==
    { Ident(Name_Foo), Ident(Name_bar), Ident(Name_ecole), Ident(Name_WideA),
      StructType, OtherNode, NilNode }

RECURSIVE SeqsUpTo(_, _)
SeqsUpTo(S, n) ==
    IF n = 0 THEN {<<>>}
    ELSE LET shorter == SeqsUpTo(S, n - 1)
         IN  shorter \cup {Append(s, x) : s \in {t \in shorter : Len(t) = n - 1}, x \in S}

(***************************************************************************)
(* State.                                                                  *)
(***************************************************************************)
VARIABLES
    cmdline,    \* the command line: the flags' values and flag.Args()
    p,          \* Params
    pc,         \* the position of main
    argi,       \* index of the positional argument the loop is at
    structs,    \* structs of main: the references collected by the loop
    paths,      \* paths of main: resolved directory -> alias index
    models,     \* models of main: the import lines
    f,          \* the temporary file: whether it exists, its handle, its text
    deferred,   \* the deferred calls of main
    stdout,     \* what the process has written to standard output
    status,     \* the exit status, -1 while the process runs
    spawns,     \* number of `go run` subprocesses started
    done,       \* the stages completed so far, in order
    failed,     \* the stage that failed, "none" if none did
    env,        \* the outcomes the file system and toolchain have given
    run,        \* 1 in the first invocation, 2 in the second
    prev,       \* what the first invocation ended with
    nodes,      \* SpecVisit: the traversal handed to the visitor
    vi,         \* SpecVisit: index of the next node
    v           \* SpecVisit: the AVisitor

vars == <<cmdline, p, pc, argi, structs, paths, models, f, deferred, stdout,
          status, spawns, done, failed, env, run, prev, nodes, vi, v>>

\* the operations whose outcome the environment decides
EnvOps == {"createTemp", "readImports", "readCommands", "render", "readBack", "run"}

\* the environment may answer ok to op: an operation that was performed
\* before answers as it did then
EnvAllows(op, ok) == op \in env.seen => (ok <=> op \in env.ok)

EnvAfter(op, ok) ==
    [seen |-> env.seen \cup {op},
     ok |-> IF ok /\ op \notin env.seen THEN env.ok \cup {op} ELSE env.ok]

\* var p Params and flag.Parse
ParsedParams(c) ==
    [ModelsPackage |-> c.package, TargetFile |-> c.target,
     ExtraImports |-> c.extraImports, ExtraCommands |-> c.extraCommands,
     Verbose |-> c.verbose, Structs |-> <<>>, Models |-> <<>>]

\* the text of a file nothing has been written to
NoText ==
    [Models |-> <<>>, ExtraImports |-> <<>>, Structs |-> <<>>,
     ExtraCommands |-> <<>>, TargetFile |-> <<>>]

NoFile == [created |-> FALSE, open |-> FALSE, text |-> NoText]

\* the state of main after flag.Parse and the two declarations before the loop
StartState(c) ==
    [p |-> ParsedParams(c),
     pc |-> IF Len(c.args) = 0 THEN "validate" ELSE "scan",
     structs |-> <<>>, paths |-> <<>>]

Start(c) ==
    /\ p = StartState(c).p
    /\ pc = StartState(c).pc
    /\ argi = 1
    /\ structs = StartState(c).structs
    /\ paths = StartState(c).paths
    /\ models = <<>>
    /\ f = NoFile
    /\ deferred = <<>>
    /\ stdout = <<>>
    /\ status = -1
    /\ spawns = 0
    /\ done = <<>>
    /\ failed = "none"

CommandLines ==
    [package : {<<>>, Pkg_p}, target : {<<>>, Target_t},
     extraImports : {<<>>, Inj_i}, extraCommands : {<<>>, Inj_i},
     verbose : BOOLEAN, args : SeqsUpTo(ArgUniverse, MaxArgs)]

Init ==
    /\ cmdline \in CommandLines
    /\ Start(cmdline)
    /\ env = [seen |-> {}, ok |-> {}]
    /\ run = 1
    /\ prev = [run |-> 0]
    /\ nodes = <<>>
    /\ vi = 1
    /\ v = NewVisitor

(***************************************************************************)
(* Helpers of main.                                                        *)
(***************************************************************************)
\* the lookup that always allocates: a directory seen before gets a new index
ResolveAlwaysNew(m, path) ==
    [d \in DOMAIN m \cup {path} |->
        IF d = path THEN Cardinality(DOMAIN m) ELSE m[d]]

\* n, exist := paths[path]; if !exist { paths[path] = len(paths) }
Resolve(m, path) ==
    IF path \in DOMAIN m THEN m
    ELSE [d \in DOMAIN m \cup {path} |->
            IF d = path THEN Cardinality(DOMAIN m) ELSE m[d]]

\* filepath.Dir(filepath.Join(p.ModelsPackage, structOrGoFile))
ResolveDir(package, file) == Dir(Join(package, file))

\* every reference gets alias 0
StructRefAliasZero(n, s) == <<109>> \o Itoa(0) \o <<46>> \o s

\* fmt.Sprintf("m%d.%s", n, s)
StructRef(n, s) == <<109>> \o Itoa(n) \o <<46>> \o s

RECURSIVE StructRefs(_, _)
StructRefs(n, names) ==
    IF names = <<>> THEN <<>>
    ELSE <<StructRef(n, names[1])>> \o StructRefs(n, Tail(names))

\* the filter without the test for a leading "."
KeepStructNoDot(str) ==
    /\ ~ContainsByte(str, Separator)
    /\ Len(str) > 0

\* whether the filter loop keeps the trimmed reference str
KeepStruct(str) ==
    /\ ~HasPrefix(str, <<46>>)
    /\ ~ContainsByte(str, Separator)
    /\ Len(str) > 0

\* the loop that builds structsArr
RECURSIVE FilterStructs(_)
FilterStructs(ss) ==
    IF ss = <<>> THEN <<>>
    ELSE LET str == TrimSpace(ss[1])
         IN  (IF KeepStruct(str) THEN <<str>> ELSE <<>>) \o FilterStructs(Tail(ss))

\* fmt.Sprintf("m%d %q", v, k)
ModelLine(n, dir) == <<109>> \o Itoa(n) \o <<32>> \o Quote(dir)

\* strings.Join(models, "\n\t")
RECURSIVE JoinModels(_)
JoinModels(ls) ==
    IF ls = <<>> THEN <<>>
    ELSE IF Len(ls) = 1 THEN ls[1]
    ELSE ls[1] \o <<10, 9>> \o JoinModels(Tail(ls))

\* the orders in which `for k, v := range paths` may yield the keys of a map
RangeOrders(m) ==
    LET n == Cardinality(DOMAIN m)
    IN  {o \in [1..n -> DOMAIN m] : \A i, j \in 1..n : o[i] = o[j] => i = j}

\* a template that also reads p.Verbose
RenderVerboseToo(params) ==
    [Models |-> params.Models, ExtraImports |-> params.ExtraImports,
     Structs |-> params.Structs,
     ExtraCommands |-> IF params.Verbose THEN <<47, 47>> ELSE params.ExtraCommands,
     TargetFile |-> params.TargetFile]

\* the template executed on p: the parts of the program text p decides
Render(params) ==
    [Models |-> params.Models, ExtraImports |-> params.ExtraImports,
     Structs |-> params.Structs, ExtraCommands |-> params.ExtraCommands,
     TargetFile |-> params.TargetFile]

\* deferred calls that never run
RunDeferredNever(file, calls) == file

\* the deferred calls run: f.Close()
RunDeferred(file, calls) ==
    IF \E i \in 1..Len(calls) : calls[i] = "f.Close"
    THEN [file EXCEPT !.open = FALSE]
    ELSE file

\* handleErr that swallows the error
HandleErrIgnore(isErr, next) == next

\* handleErr(err): where main goes on
HandleErr(isErr, next) == IF isErr THEN "panic" ELSE next

\* the subprocess's output is dropped
PrintlnNothing(out, line) == out

\* fmt.Println / fmt.Printf to standard output
Println(out, line) == Append(out, line)

\* the combined output of a failed `go run`
GoRunOutput == [what |-> "output", text |-> NoText]

\* what an invocation ended with
Outcome ==
    [run |-> run, text |-> f.text, spawns |-> spawns, status |-> status,
     failed |-> failed]

(***************************************************************************)
(* main, stage by stage.                                                   *)
(***************************************************************************)
Arg == cmdline.args[argi]

AfterArg == IF argi + 1 > Len(cmdline.args) THEN "validate" ELSE "scan"

\* the loop over flag.Args(): a bare type name
ScanName ==
    /\ pc = "scan"
    /\ ~HasSuffix(Arg, GoSuffix)
    /\ structs' = Append(structs, Arg)
    /\ argi' = argi + 1
    /\ pc' = AfterArg
    /\ done' = Append(done, "scan")
    /\ UNCHANGED <<cmdline, p, paths, models, f, deferred, stdout, status, spawns,
                   failed, env, run, prev, nodes, vi, v>>

\* the loop over flag.Args(): a .go file that parses
ScanGoFile ==
    /\ pc = "scan"
    /\ HasSuffix(Arg, GoSuffix)
    /\ ~ParseFile(Arg).err
    /\ LET path == ResolveDir(p.ModelsPackage, Arg)
           m == Resolve(paths, path)
       IN  /\ paths' = m
           /\ structs' = structs \o StructRefs(m[path], GetGolangFileStructs(Arg))
    /\ argi' = argi + 1
    /\ pc' = AfterArg
    /\ done' = Append(done, "scan")
    /\ UNCHANGED <<cmdline, p, models, f, deferred, stdout, status, spawns,
                   failed, env, run, prev, nodes, vi, v>>

\* the loop over flag.Args(): a .go file that does not parse
ScanGoFileError ==
    /\ pc = "scan"
    /\ HasSuffix(Arg, GoSuffix)
    /\ ParseFile(Arg).err
    /\ paths' = Resolve(paths, ResolveDir(p.ModelsPackage, Arg))
    /\ failed' = "scan"
    /\ pc' = "panic"
    /\ UNCHANGED <<cmdline, p, argi, structs, models, f, deferred, stdout, status,
                   spawns, done, env, run, prev, nodes, vi, v>>

\* "No package given": os.Exit(1)
NoPackage ==
    /\ pc = "validate"
    /\ Len(p.ModelsPackage) = 0
    /\ failed' = "validate"
    /\ status' = 1
    /\ pc' = "exited"
    /\ UNCHANGED <<cmdline, p, argi, structs, paths, models, f, deferred, stdout,
                   spawns, done, env, run, prev, nodes, vi, v>>

\* "No target file": os.Exit(1)
NoTarget ==
    /\ pc = "validate"
    /\ Len(p.ModelsPackage) # 0
    /\ Len(p.TargetFile) = 0
    /\ failed' = "validate"
    /\ status' = 1
    /\ pc' = "exited"
    /\ UNCHANGED <<cmdline, p, argi, structs, paths, models, f, deferred, stdout,
                   spawns, done, env, run, prev, nodes, vi, v>>

FlagsGiven == Len(p.ModelsPackage) # 0 /\ Len(p.TargetFile) # 0

\* os.CreateTemp succeeds; defer f.Close()
CreateTemp ==
    /\ pc = "validate"
    /\ FlagsGiven
    /\ EnvAllows("createTemp", TRUE)
    /\ env' = EnvAfter("createTemp", TRUE)
    /\ f' = [created |-> TRUE, open |-> TRUE, text |-> NoText]
    /\ deferred' = Append(deferred, "f.Close")
    /\ done' = done \o <<"validate", "createTemp">>
    /\ pc' = HandleErr(FALSE, "filter")
    /\ UNCHANGED <<cmdline, p, argi, structs, paths, models, stdout, status, spawns,
                   failed, run, prev, nodes, vi, v>>

\* os.CreateTemp fails
CreateTempError ==
    /\ pc = "validate"
    /\ FlagsGiven
    /\ EnvAllows("createTemp", FALSE)
    /\ env' = EnvAfter("createTemp", FALSE)
    /\ done' = Append(done, "validate")
    /\ failed' = "createTemp"
    /\ pc' = HandleErr(TRUE, "filter")
    /\ UNCHANGED <<cmdline, p, argi, structs, paths, models, f, deferred, stdout,
                   status, spawns, run, prev, nodes, vi, v>>

\* the loop that builds structsArr; p.Structs = structsArr
Filter ==
    /\ pc = "filter"
    /\ p' = [p EXCEPT !.Structs = FilterStructs(structs)]
    /\ done' = Append(done, "filter")
    /\ pc' = "readImports"
    /\ UNCHANGED <<cmdline, argi, structs, paths, models, f, deferred, stdout, status,
                   spawns, failed, env, run, prev, nodes, vi, v>>

\* no -extra-imports
NoExtraImports ==
    /\ pc = "readImports"
    /\ p.ExtraImports = <<>>
    /\ done' = Append(done, "readImports")
    /\ pc' = "readCommands"
    /\ UNCHANGED <<cmdline, p, argi, structs, paths, models, f, deferred, stdout,
                   status, spawns, failed, env, run, prev, nodes, vi, v>>

\* os.ReadFile(p.ExtraImports) succeeds
ReadExtraImports ==
    /\ pc = "readImports"
    /\ p.ExtraImports # <<>>
    /\ EnvAllows("readImports", TRUE)
    /\ env' = EnvAfter("readImports", TRUE)
    /\ p' = [p EXCEPT !.ExtraImports = InjectedText]
    /\ done' = Append(done, "readImports")
    /\ pc' = HandleErr(FALSE, "readCommands")
    /\ UNCHANGED <<cmdline, argi, structs, paths, models, f, deferred, stdout, status,
                   spawns, failed, run, prev, nodes, vi, v>>

\* os.ReadFile(p.ExtraImports) fails
ReadExtraImportsError ==
    /\ pc = "readImports"
    /\ p.ExtraImports # <<>>
    /\ EnvAllows("readImports", FALSE)
    /\ env' = EnvAfter("readImports", FALSE)
    /\ failed' = "readImports"
    /\ pc' = HandleErr(TRUE, "readCommands")
    /\ UNCHANGED <<cmdline, p, argi, structs, paths, models, f, deferred, stdout,
                   status, spawns, done, run, prev, nodes, vi, v>>

\* no -extra-commands
NoExtraCommands ==
    /\ pc = "readCommands"
    /\ p.ExtraCommands = <<>>
    /\ done' = Append(done, "readCommands")
    /\ pc' = "render"
    /\ UNCHANGED <<cmdline, p, argi, structs, paths, models, f, deferred, stdout,
                   status, spawns, failed, env, run, prev, nodes, vi, v>>

\* os.ReadFile(p.ExtraCommands) succeeds
ReadExtraCommands ==
    /\ pc = "readCommands"
    /\ p.ExtraCommands # <<>>
    /\ EnvAllows("readCommands", TRUE)
    /\ env' = EnvAfter("readCommands", TRUE)
    /\ p' = [p EXCEPT !.ExtraCommands = InjectedText]
    /\ done' = Append(done, "readCommands")
    /\ pc' = HandleErr(FALSE, "render")
    /\ UNCHANGED <<cmdline, argi, structs, paths, models, f, deferred, stdout, status,
                   spawns, failed, run, prev, nodes, vi, v>>

\* os.ReadFile(p.ExtraCommands) fails
ReadExtraCommandsError ==
    /\ pc = "readCommands"
    /\ p.ExtraCommands # <<>>
    /\ EnvAllows("readCommands", FALSE)
    /\ env' = EnvAfter("readCommands", FALSE)
    /\ failed' = "readCommands"
    /\ pc' = HandleErr(TRUE, "render")
    /\ UNCHANGED <<cmdline, p, argi, structs, paths, models, f, deferred, stdout,
                   status, spawns, done, run, prev, nodes, vi, v>>

\* models and p.Models, from the map in one of the orders range may take
BuildModels(o) ==
    /\ models' = [i \in 1..Len(o) |-> ModelLine(paths[o[i]], o[i])]
    /\ p' = [p EXCEPT !.Models = JoinModels(models')]

\* the import lines are built and t.Execute(f, p) writes the program
RenderProgram ==
    /\ pc = "render"
    /\ EnvAllows("render", TRUE)
    /\ env' = EnvAfter("render", TRUE)
    /\ \E o \in RangeOrders(paths) : BuildModels(o)
    /\ f' = [f EXCEPT !.text = Render(p')]
    /\ done' = Append(done, "render")
    /\ pc' = HandleErr(FALSE, "verbose")
    /\ UNCHANGED <<cmdline, argi, structs, paths, deferred, stdout, status, spawns,
                   failed, run, prev, nodes, vi, v>>

\* the import lines are built and t.Execute(f, p) fails: nothing is written
RenderProgramError ==
    /\ pc = "render"
    /\ EnvAllows("render", FALSE)
    /\ env' = EnvAfter("render", FALSE)
    /\ \E o \in RangeOrders(paths) : BuildModels(o)
    /\ failed' = "render"
    /\ pc' = HandleErr(TRUE, "verbose")
    /\ UNCHANGED <<cmdline, argi, structs, paths, f, deferred, stdout, status, spawns,
                   done, run, prev, nodes, vi, v>>

\* not verbose
NotVerbose ==
    /\ pc = "verbose"
    /\ ~p.Verbose
    /\ pc' = "exec"
    /\ UNCHANGED <<cmdline, p, argi, structs, paths, models, f, deferred, stdout,
                   status, spawns, done, failed, env, run, prev, nodes, vi, v>>

\* verbose: os.ReadFile(f.Name()) succeeds and the program is printed
VerboseDump ==
    /\ pc = "verbose"
    /\ p.Verbose
    /\ EnvAllows("readBack", TRUE)
    /\ env' = EnvAfter("readBack", TRUE)
    /\ stdout' = Println(stdout, [what |-> "dump", text |-> f.text])
    /\ done' = Append(done, "readBack")
    /\ pc' = HandleErr(FALSE, "exec")
    /\ UNCHANGED <<cmdline, p, argi, structs, paths, models, f, deferred, status,
                   spawns, failed, run, prev, nodes, vi, v>>

\* verbose: os.ReadFile(f.Name()) fails
VerboseDumpError ==
    /\ pc = "verbose"
    /\ p.Verbose
    /\ EnvAllows("readBack", FALSE)
    /\ env' = EnvAfter("readBack", FALSE)
    /\ failed' = "readBack"
    /\ pc' = HandleErr(TRUE, "exec")
    /\ UNCHANGED <<cmdline, p, argi, structs, paths, models, f, deferred, stdout,
                   status, spawns, done, run, prev, nodes, vi, v>>

\* exec.Command("go", "run", f.Name()).CombinedOutput() succeeds
GoRun ==
    /\ pc = "exec"
    /\ EnvAllows("run", TRUE)
    /\ env' = EnvAfter("run", TRUE)
    /\ spawns' = spawns + 1
    /\ done' = Append(done, "run")
    /\ pc' = "return"
    /\ UNCHANGED <<cmdline, p, argi, structs, paths, models, f, deferred, stdout,
                   status, failed, run, prev, nodes, vi, v>>

\* CombinedOutput() reports failure: fmt.Println(string(output)); handleErr(err)
GoRunError ==
    /\ pc = "exec"
    /\ EnvAllows("run", FALSE)
    /\ env' = EnvAfter("run", FALSE)
    /\ spawns' = spawns + 1
    /\ stdout' = Println(stdout, GoRunOutput)
    /\ failed' = "run"
    /\ pc' = HandleErr(TRUE, "return")
    /\ UNCHANGED <<cmdline, p, argi, structs, paths, models, f, deferred, status,
                   done, run, prev, nodes, vi, v>>

\* main returns: the deferred calls run and the process exits with status 0
Return ==
    /\ pc = "return"
    /\ f' = RunDeferred(f, deferred)
    /\ status' = 0
    /\ pc' = "exited"
    /\ UNCHANGED <<cmdline, p, argi, structs, paths, models, deferred, stdout,
                   spawns, done, failed, env, run, prev, nodes, vi, v>>

\* panic: the deferred calls run and the process exits with status 2
Panic ==
    /\ pc = "panic"
    /\ f' = RunDeferred(f, deferred)
    /\ status' = 2
    /\ pc' = "exited"
    /\ UNCHANGED <<cmdline, p, argi, structs, paths, models, deferred, stdout,
                   spawns, done, failed, env, run, prev, nodes, vi, v>>

\* the program is invoked again, on the same command line but for -verbose,
\* in the same file system and with the same toolchain
InvokeAgain ==
    /\ pc = "exited"
    /\ run = 1
    /\ prev' = Outcome
    /\ run' = 2
    /\ cmdline' = [cmdline EXCEPT !.verbose = ~cmdline.verbose]
    /\ p' = StartState(cmdline').p
    /\ pc' = StartState(cmdline').pc
    /\ argi' = 1
    /\ structs' = <<>>
    /\ paths' = <<>>
    /\ models' = <<>>
    /\ f' = NoFile
    /\ deferred' = <<>>
    /\ stdout' = <<>>
    /\ status' = -1
    /\ spawns' = 0
    /\ done' = <<>>
    /\ failed' = "none"
    /\ UNCHANGED <<env, nodes, vi, v>>

Next ==
    \/ ScanName \/ ScanGoFile \/ ScanGoFileError
    \/ NoPackage \/ NoTarget
    \/ CreateTemp \/ CreateTempError
    \/ Filter
    \/ NoExtraImports \/ ReadExtraImports \/ ReadExtraImportsError
    \/ NoExtraCommands \/ ReadExtraCommands \/ ReadExtraCommandsError
    \/ RenderProgram \/ RenderProgramError
    \/ NotVerbose \/ VerboseDump \/ VerboseDumpError
    \/ GoRun \/ GoRunError
    \/ Return \/ Panic
    \/ InvokeAgain

Spec == Init /\ [][Next]_vars

(***************************************************************************)
(* The scanner on its own: GetGolangFileStructs on any traversal.          *)
(***************************************************************************)
NoCommandLine ==
    [package |-> <<>>, target |-> <<>>, extraImports |-> <<>>,
     extraCommands |-> <<>>, verbose |-> FALSE, args |-> <<>>]

InitVisit ==
    /\ nodes \in SeqsUpTo(NodeUniverse, MaxNodes)
    /\ vi = 1
    /\ v = NewVisitor
    /\ cmdline = NoCommandLine
    /\ Start(cmdline)
    /\ env = [seen |-> {}, ok |-> {}]
    /\ run = 1
    /\ prev = [run |-> 0]

\* ast.Walk hands the next node to v.Visit
VisitNode ==
    /\ vi <= Len(nodes)
    /\ v' = Visit(v, nodes[vi])
    /\ vi' = vi + 1
    /\ UNCHANGED <<nodes, cmdline, p, pc, argi, structs, paths, models, f, deferred,
                   stdout, status, spawns, done, failed, env, run, prev>>

NextVisit == VisitNode

SpecVisit == InitVisit /\ [][NextVisit]_vars

(***************************************************************************)
(* Vocabulary of the properties.                                           *)
(***************************************************************************)
Range(s) == {s[i] : i \in DOMAIN s}

Exited == pc = "exited"

\* the stage has been completed in this invocation
Completed(stage) == stage \in Range(done)

IsGoFile(a) == HasSuffix(a, GoSuffix)

\* an upper-case letter, among the code points the names of the model begin
\* with: A-Z, the upper-case letters of Latin-1, the fullwidth A-Z
IsUpperLetter(r) ==
    \/ (r >= 65 /\ r <= 90)
    \/ (r >= 192 /\ r <= 214)
    \/ (r >= 216 /\ r <= 222)
    \/ (r >= 65313 /\ r <= 65338)

StartsUpper(name) == name # <<>> /\ IsUpperLetter(DecodeRune(name))

\* index of the last byte b of s, 0 if none
RECURSIVE LastIndexOf(_, _, _)
LastIndexOf(s, b, i) ==
    IF i = 0 THEN 0
    ELSE IF s[i] = b THEN i
    ELSE LastIndexOf(s, b, i - 1)

\* the type name of a reference: what follows its last "."
TypeName(ref) == SubSeq(ref, LastIndexOf(ref, 46, Len(ref)) + 1, Len(ref))

\* number of positional arguments the loop has resolved
Processed == IF failed = "scan" THEN argi ELSE argi - 1

\* the resolved directories of the first n arguments that are .go files,
\* each once, in the order they are first met
RECURSIVE FirstSeenDirs(_)
FirstSeenDirs(n) ==
    IF n = 0 THEN <<>>
    ELSE LET before == FirstSeenDirs(n - 1)
             a == cmdline.args[n]
             d == Dir(Join(cmdline.package, a))
         IN  IF IsGoFile(a) /\ d \notin Range(before) THEN Append(before, d)
             ELSE before

\* the import lines of a program text: p.Models cut at each "\n\t"
RECURSIVE ImportLines(_, _)
ImportLines(text, cur) ==
    IF text = <<>> THEN (IF cur = <<>> THEN <<>> ELSE <<cur>>)
    ELSE IF Len(text) >= 2 /\ text[1] = 10 /\ text[2] = 9
         THEN <<cur>> \o ImportLines(SubSeq(text, 3, Len(text)), <<>>)
    ELSE ImportLines(Tail(text), Append(cur, text[1]))

\* s up to its first byte b (all of s if there is none)
RECURSIVE Before(_, _)
Before(s, b) ==
    IF s = <<>> \/ s[1] = b THEN <<>>
    ELSE <<s[1]>> \o Before(Tail(s), b)

IsDigits(s) == s # <<>> /\ \A i \in 1..Len(s) : s[i] >= 48 /\ s[i] <= 57

\* "m<n>" for some n
IsAlias(s) == Len(s) >= 2 /\ s[1] = 109 /\ IsDigits(Tail(s))

\* the aliases that qualify a register-type statement of the program text
UsedAliases(text) ==
    {Before(text.Structs[i], 46) : i \in
        {j \in DOMAIN text.Structs :
            /\ ContainsByte(text.Structs[j], 46)
            /\ IsAlias(Before(text.Structs[j], 46))}}

\* the aliases the import block of the program text declares
ImportedAliases(text) ==
    LET ls == ImportLines(text.Models, <<>>)
    IN  {Before(ls[i], 32) : i \in DOMAIN ls}

(***************************************************************************)
(* Properties.                                                             *)
(***************************************************************************)
FlagMissing == cmdline.package = <<>> \/ cmdline.target = <<>>

\* C1: whenever the package flag or the target flag is empty, whatever the
\* positional arguments are, no temporary file is created, no subprocess is
\* spawned and the process ends with exit status 1.
C1_MissingFlagExitsOne ==
    FlagMissing =>
        /\ ~f.created
        /\ spawns = 0
        /\ (Exited => status = 1)

\* C2 as stated: every struct reference that reaches the template has a type
\* name beginning with an upper-case letter, bare names included.
C2_StructsAllUpperCase ==
    Completed("filter") =>
        \A i \in DOMAIN p.Structs : StartsUpper(TypeName(p.Structs[i]))

\* what the filter tests of a trimmed reference
PassesFilter(t) ==
    /\ t # <<>>
    /\ t[1] # 46
    /\ \A k \in 1..Len(t) : t[k] # Separator

\* C2, amended: every element of Params.Structs is non-empty, carries no
\* white space around it, does not begin with "." and contains no path
\* separator; no upper-case test is made, so a bare name that passes these
\* tests reaches the template whatever the case of its first letter.
C2_FilterKeepsLowerCase ==
    Completed("filter") =>
        /\ \A i \in DOMAIN p.Structs :
              /\ TrimSpace(p.Structs[i]) = p.Structs[i]
              /\ PassesFilter(p.Structs[i])
        /\ \A i \in DOMAIN cmdline.args :
              (~IsGoFile(cmdline.args[i]) /\ PassesFilter(TrimSpace(cmdline.args[i])))
                  => TrimSpace(cmdline.args[i]) \in Range(p.Structs)

\* a lower-case bare name has reached the template while another reference
\* was discarded
C2_Witness ==
    /\ Completed("filter")
    /\ Arg_foo \in Range(p.Structs)
    /\ Len(p.Structs) < Len(structs)

\* C3: the directory-to-alias map holds exactly the distinct resolved
\* directories of the .go arguments processed so far, the k-th of them in
\* first-seen order having index k-1 (so it is injective onto 0..k-1, and a
\* directory met again keeps its index).
C3_AliasesFirstSeenOrder ==
    LET dirs == FirstSeenDirs(Processed)
    IN  /\ DOMAIN paths = Range(dirs)
        /\ \A k \in DOMAIN dirs : paths[dirs[k]] = k - 1

\* the loop has resolved the directory of a file and then met it again,
\* spelt differently, for another file
C3_Witness ==
    /\ Processed = 2
    /\ IsGoFile(cmdline.args[1]) /\ IsGoFile(cmdline.args[2])
    /\ cmdline.args[1] # cmdline.args[2]
    /\ Dir(Join(cmdline.package, cmdline.args[1])) = Dir(Join(cmdline.package, cmdline.args[2]))
    /\ Cardinality(DOMAIN paths) = 1

\* the references the arguments give rise to, each file-derived one
\* qualified with the alias of its file's directory
RECURSIVE ExpectedRefs(_)
ExpectedRefs(n) ==
    IF n = 0 THEN <<>>
    ELSE LET a == cmdline.args[n]
             alias == <<109>> \o Itoa(paths[Dir(Join(cmdline.package, a))]) \o <<46>>
             names == GetGolangFileStructs(a)
         IN  ExpectedRefs(n - 1) \o
             (IF IsGoFile(a)
              THEN [i \in 1..Len(names) |-> alias \o names[i]]
              ELSE FilterStructs(<<a>>))

\* C4: the rendered program has exactly one import line per distinct
\* resolved directory of the .go arguments, and every register-type
\* statement derived from a file is qualified with the alias of that file's
\* directory.
C4_OneImportPerDirectory ==
    Completed("render") =>
        LET ls == ImportLines(f.text.Models, <<>>)
        IN  /\ Len(ls) = Cardinality(DOMAIN paths)
            /\ DOMAIN paths = Range(FirstSeenDirs(Len(cmdline.args)))
            /\ \A d \in DOMAIN paths :
                  Cardinality({i \in DOMAIN ls :
                      ls[i] = <<109>> \o Itoa(paths[d]) \o <<32, 34>> \o d \o <<34>>}) = 1
            /\ f.text.Structs = ExpectedRefs(Len(cmdline.args))

\* two files of one directory, an exported struct in each: one import and
\* two statements with the same alias
C4_Witness ==
    /\ Completed("render")
    /\ cmdline.args = <<File_ax, File_ay>>
    /\ Len(ImportLines(f.text.Models, <<>>)) = 1
    /\ Len(f.text.Structs) = 2
    /\ Before(f.text.Structs[1], 46) = Before(f.text.Structs[2], 46)
    /\ IsAlias(Before(f.text.Structs[1], 46))

\* index of the last node before the k-th that is not nil, 0 if none
RECURSIVE LastNonNil(_, _)
LastNonNil(ns, k) ==
    IF k <= 1 THEN 0
    ELSE IF ns[k - 1].kind # "nil" THEN k - 1
    ELSE LastNonNil(ns, k - 1)

\* the k-th node is preceded by an identifier with an upper-case first letter
AfterUpperIdent(ns, k) ==
    LET j == LastNonNil(ns, k)
    IN  j > 0 /\ ns[j].kind = "Ident" /\ StartsUpper(ns[j].name)

\* the names due after the first n nodes: one for each structured-type node
\* preceded by an upper-case identifier
RECURSIVE DueNames(_, _)
DueNames(ns, n) ==
    IF n = 0 THEN <<>>
    ELSE IF ns[n].kind = "StructType" /\ AfterUpperIdent(ns, n)
         THEN Append(DueNames(ns, n - 1), ns[LastNonNil(ns, n)].name)
    ELSE DueNames(ns, n - 1)

\* C5: in any traversal the scanner emits a name at a structured-type node
\* if and only if the last non-nil node before it is an identifier whose
\* name starts with an upper-case letter, and emits that identifier's name.
C5_EmitsIffUpperIdent == v.structs = DueNames(nodes, vi - 1)

\* C6: when `go run` reports failure its combined output is on standard
\* output before the process aborts, and the process ends with a non-zero
\* status; when it succeeds nothing of it is printed (standard output holds
\* the verbose dump at most) and the process ends with status 0.
C6_OutputBeforeAbort ==
    /\ (failed = "run") =>
          /\ pc \in {"panic", "exited"}
          /\ stdout # <<>>
          /\ stdout[Len(stdout)].what = "output"
          /\ Exited => status # 0
    /\ Completed("run") =>
          /\ pc \in {"return", "exited"}
          /\ Len(stdout) = (IF p.Verbose THEN 1 ELSE 0)
          /\ \A i \in DOMAIN stdout : stdout[i].what = "dump"
          /\ Exited => status = 0

\* the subprocess failed, its output was printed and the process aborted
C6_Witness ==
    /\ Exited
    /\ failed = "run"
    /\ spawns = 1
    /\ stdout[Len(stdout)].what = "output"
    /\ status = 2

\* the stages that come before the subprocess, in the order main takes them
StagesBeforeRun ==
    [i \in 1..Len(cmdline.args) |-> "scan"] \o
    <<"validate", "createTemp", "filter", "readImports", "readCommands", "render">>

\* C7: the subprocess is spawned at most once, and only after every
\* argument has been scanned and validation, temp-file creation, the reading
\* of the injection files and rendering have succeeded; once a stage has
\* failed no further stage is performed and the process ends with a non-zero
\* status.
C7_FailFast ==
    /\ spawns <= 1
    /\ spawns = 1 =>
          /\ Len(done) >= Len(StagesBeforeRun)
          /\ SubSeq(done, 1, Len(StagesBeforeRun)) = StagesBeforeRun
    /\ failed # "none" =>
          /\ pc \in {"panic", "exited"}
          /\ IF failed = "scan" THEN done = [i \in 1..(argi - 1) |-> "scan"]
                                ELSE failed \notin Range(done)
          /\ failed # "run" => spawns = 0
          /\ Exited => status # 0

\* reading the extra commands failed after the stages before it succeeded
C7_Witness ==
    /\ Exited
    /\ failed = "readCommands"
    /\ Completed("readImports")
    /\ spawns = 0
    /\ status = 2

\* C8: when the process ends the temporary file's handle is closed, on the
\* normal return and on every abort after the file was created; an
\* invocation that ends in validation never opened a handle.
C8_HandleClosedAtExit ==
    /\ Exited => ~f.open
    /\ failed \in {"scan", "validate", "createTemp"} => (~f.created /\ ~f.open)
    /\ f.open => Completed("createTemp")

\* the process aborted after the temporary file was created
C8_Witness ==
    /\ Exited
    /\ f.created
    /\ failed = "render"
    /\ status = 2
    /\ ~f.open

SecondExited == run = 2 /\ Exited

\* C9 as stated: two invocations that differ only in the verbose flag persist
\* the same program text, agree on whether the subprocess is spawned and end
\* with the same exit outcome.
C9_VerboseChangesNothing ==
    SecondExited =>
        /\ f.text = prev.text
        /\ spawns = prev.spawns
        /\ status = prev.status

\* the program texts differ at most in the order of their import lines
SameButImportOrder(a, b) ==
    /\ [a EXCEPT !.Models = <<>>] = [b EXCEPT !.Models = <<>>]
    /\ Len(ImportLines(a.Models, <<>>)) = Len(ImportLines(b.Models, <<>>))
    /\ Range(ImportLines(a.Models, <<>>)) = Range(ImportLines(b.Models, <<>>))

\* C9, amended: two invocations that differ only in the verbose flag persist
\* the same program text up to the order of the import lines; unless the
\* verbose one fails to read the temporary file back, they agree on whether
\* the subprocess is spawned and on the exit status, and if it does fail it
\* aborts with a non-zero status before any subprocess is spawned.  The dump
\* is printed by the verbose invocation only, before the subprocess starts.
C9_VerboseOnlyDumps ==
    /\ SecondExited =>
          /\ SameButImportOrder(f.text, prev.text)
          /\ (failed # "readBack" /\ prev.failed # "readBack") =>
                (spawns = prev.spawns /\ status = prev.status)
    /\ failed = "readBack" => (p.Verbose /\ spawns = 0 /\ (Exited => status # 0))
    /\ spawns = 1 =>
          IF p.Verbose
          THEN stdout # <<>> /\ stdout[1].what = "dump" /\ stdout[1].text = f.text
          ELSE \A i \in DOMAIN stdout : stdout[i].what # "dump"

\* both invocations have run the subprocess, the second one verbosely
C9_Witness ==
    /\ SecondExited
    /\ p.Verbose
    /\ spawns = 1 /\ prev.spawns = 1
    /\ stdout # <<>> /\ stdout[1].what = "dump"
    /\ status = 0 /\ prev.status = 0

\* C10: in the rendered program every alias that qualifies a register-type
\* statement has an import line, and every import line's alias qualifies at
\* least one register-type statement.
C10_ImportsMatchReferences ==
    Completed("render") => UsedAliases(f.text) = ImportedAliases(f.text)

=============================================================================
